---- MODULE Spec2Model ----
(***************************************************************************)
(* Model of the `crawl` command of @mkusaka/sitemap-crawler                *)
(* (src/src/index.ts): output directory creation, sitemap fetch, the       *)
(* fan-out of every sitemap URL through the p-throttle rate gate, the      *)
(* p-retry loop around processUrl, the per-target catch block and the      *)
(* final summary.                                                          *)
(*                                                                         *)
(* Time is in milliseconds.  Timers (the rate gate's setTimeout and the    *)
(* retry backoff's setTimeout) fire at their deadline: the clock never     *)
(* moves past a pending deadline.  A fetch or a file write may take any    *)
(* amount of time, including none.                                         *)
(*                                                                         *)
(* Library behaviour the calls rely on:                                    *)
(*  - pThrottle({limit, interval}) lets limit calls start per interval;    *)
(*    all calls of throttledFn are made in one synchronous sites.map pass. *)
(*  - pRetry(fn, {retries, ...}) runs fn once and up to `retries` more     *)
(*    times; it calls onFailedAttempt after every failed attempt, the last *)
(*    one included, and only then schedules the next attempt or rejects.   *)
(*  - attempt failures are ordinary Errors ("No content found", rejected   *)
(*    fetches and writes); retry delays are within 1..maxTimeout.          *)
(***************************************************************************)
EXTENDS Integers, Sequences, FiniteSets, TLC

\* ---------------------------------------------------------------- bounds
MaxSites == 2          \* longest sitemap list explored
MaxRetries == 2        \* largest --retries value explored
MaxRateLimit == 2      \* largest --rate-limit value explored
MaxTicks == 2          \* clock steps of TickMs taken while work is in flight
MaxSoloRetries == 3    \* largest --retries value explored for a one-URL sitemap

\* ------------------------------------------------------ program constants
interval == 1000       \* pThrottle({ interval: 1000 })
factor == 2            \* retryOptions.factor
maxTimeout == 60000    \* retryOptions.maxTimeout
defaultRetryDelay == 1000  \* --retry-delay default

TickMs == interval \div 2

\* option values explored (parsed with parseInt in the code)
RetryChoices == 0..MaxRetries
SoloRetryChoices == 0..MaxSoloRetries
RateChoices == 0..MaxRateLimit
DelayChoices == {defaultRetryDelay, 40 * defaultRetryDelay}
SiteCounts == 0..MaxSites

VARIABLES
    phase,          \* "start" | "mkdirDone" | "running" | "exited"
    exitCode,       \* -1 while the process lives, else the process.exit code
    options,        \* parsed CrawlOptions: continue, retries, retryDelay, rateLimit
    sites,          \* the list returned by sitemap.fetch
    now,            \* clock, ms since the fan-out
    tstate,         \* per target: position of its async task
    timerAt,        \* per target: deadline of its pending setTimeout, -1 if none
    attemptNumber,  \* per target: p-retry attempt number of the last started attempt
    opStart,        \* per target: time the retry-wrapped operation started, -1 if not
    fetchWindow,    \* start times of the processUrl invocations of the last interval ms
    failReports,    \* per target: onFailedAttempt reports <<attempt, nextRetryDelay>>
    waits,          \* per target: backoff waits actually scheduled by p-retry
    errorReports,   \* targets reported "Error processing ... after all retry attempts"
    results,        \* per target: state of its promise in Promise.allSettled
    outcome,        \* per target: value the promise was fulfilled with
    summary,        \* the "Completed processing" line, or NoSummary
    fatalError,     \* "none", or which awaited setup call rejected: "mkdir" | "sitemap"
    reportUrls,     \* per target: the URLs named by each onFailedAttempt report
    emptyCount,     \* per target: attempts whose extraction had no content
    written         \* per target: writeFile calls that completed

vars == <<phase, exitCode, options, sites, now, tstate, timerAt, attemptNumber,
          opStart, fetchWindow, failReports, waits, errorReports, results,
          outcome, summary, fatalError, reportUrls, emptyCount, written>>

NoSummary == [total |-> -1, successful |-> -1, failed |-> -1]

Targets == 1..Len(sites)

Min(a, b) == IF a <= b THEN a ELSE b

RECURSIVE Pow(_, _)
Pow(b, e) == IF e <= 0 THEN 1 ELSE b * Pow(b, e - 1)

\* ------------------------------------------------------------ pure helpers

\* rateLimitPerSecond = parseInt(options.rateLimit || "1")
rateLimitPerSecond == options.rateLimit

\* throttleDelay with the gate left out: every call runs at once
throttleDelayUngated(i) == 0

\* throttleDelay admitting one call too many per interval
throttleDelayLoose(i) ==
    IF rateLimitPerSecond > 0
    THEN ((i - 1) \div (rateLimitPerSecond + 1)) * interval
    ELSE 0

\* throttleDelay without the unthrottled branch: a limit of 0 gates like 1
throttleDelayAlways(i) ==
    IF rateLimitPerSecond > 0
    THEN ((i - 1) \div rateLimitPerSecond) * interval
    ELSE (i - 1) * interval

\* Delay p-throttle gives the i-th call (1-based) of throttledFn when all calls
\* are made in the same synchronous sites.map pass: limit calls per interval.
\* With rateLimitPerSecond = 0 the unthrottled branch is taken.
throttleDelay(i) ==
    IF rateLimitPerSecond > 0
    THEN ((i - 1) \div rateLimitPerSecond) * interval
    ELSE 0

\* p-retry: after failed attempt n a retry is scheduled while retries remain
\* (retries counts the attempts after the first one).
\* the failed attempts reported so far, of all targets together
RECURSIVE failedAttempts(_)
failedAttempts(k) ==
    IF k = 0 THEN 0 ELSE Len(failReports[k]) + failedAttempts(k - 1)

\* retriesLeft with one retry budget shared by all targets
retriesLeftShared(n) == options.retries - failedAttempts(Len(sites))

retriesLeft(n) == options.retries - (n - 1)

\* shouldRetryAgain counting the first attempt as a retry
shouldRetryAgainOffByOne(n) == retriesLeft(n) > 1

shouldRetryAgain(n) == retriesLeft(n) > 0

\* retryTimeout without the maxTimeout ceiling
retryTimeoutUncapped(n) == options.retryDelay * Pow(factor, n - 1)

\* p-retry backoff schedule built from factor / minTimeout / maxTimeout.
retryTimeout(n) == Min(options.retryDelay * Pow(factor, n - 1), maxTimeout)

\* onFailedAttempt: nextRetryDelay = Math.min(retryDelay * 2^(retryCount-1), 60000)
nextRetryDelay(retryCount) ==
    Min(options.retryDelay * Pow(2, retryCount - 1), 60000)

\* stopsOnError with the test of options.continue inverted
stopsOnErrorInverted == options.continue

\* stopsOnError with the exit left out
stopsOnErrorNever == FALSE

\* catch block: if (!options.continue) process.exit(1)
stopsOnError == ~options.continue

\* allSettled resuming on the first settled promise
anySettled == \E i \in Targets : results[i] # "pending"

\* allSettled that ignores operations waiting on a timer
noneInFlight == \A i \in Targets : tstate[i] \notin {"fetching", "writing"}

\* await Promise.allSettled(...): resumes when no promise is pending
allSettled == \A i \in Targets : results[i] # "pending"

\* results.filter(r => r.status === "fulfilled").length
successful == Cardinality({i \in Targets : results[i] = "fulfilled"})

\* results.filter(r => r.status === "rejected").length
failed == Cardinality({i \in Targets : results[i] = "rejected"})

\* ------------------------------------------------------------------- Init

InitWith(retryChoices, delayChoices) ==
    /\ phase = "start"
    /\ exitCode = -1
    /\ options \in [continue : BOOLEAN, retries : retryChoices,
                    retryDelay : delayChoices, rateLimit : RateChoices]
    /\ sites = <<>>
    /\ now = 0
    /\ tstate = <<>>
    /\ timerAt = <<>>
    /\ attemptNumber = <<>>
    /\ opStart = <<>>
    /\ fetchWindow = <<>>
    /\ failReports = <<>>
    /\ waits = <<>>
    /\ errorReports = {}
    /\ results = <<>>
    /\ outcome = <<>>
    /\ summary = NoSummary
    /\ fatalError = "none"
    /\ reportUrls = <<>>
    /\ emptyCount = <<>>
    /\ written = <<>>

\* the crawl of a sitemap of up to MaxSites URLs with the default retry delay
Init == InitWith(RetryChoices, {defaultRetryDelay})

\* the crawl of a one-URL sitemap over a wider range of retry options
InitSolo == InitWith(SoloRetryChoices, DelayChoices)

\* ---------------------------------------------------------------- actions

\* process.exit(code): the process is gone, nothing runs afterwards
Exit(code) ==
    /\ phase' = "exited"
    /\ exitCode' = code

\* Mkdir with the rejection swallowed: the run goes on to the sitemap fetch
MkdirUnchecked(ok) ==
    /\ phase = "start"
    /\ phase' = "mkdirDone"
    /\ fatalError' = IF ok THEN fatalError ELSE "mkdir"
    /\ UNCHANGED <<exitCode, options, sites, now, tstate, timerAt, attemptNumber,
                   opStart, fetchWindow, failReports, waits, errorReports,
                   results, outcome, summary, reportUrls, emptyCount, written>>

\* await mkdir(outputPath, { recursive: true }); a rejection is caught by the
\* inner catch ("Error fetching sitemap"), which exits with code 1
Mkdir(ok) ==
    /\ phase = "start"
    /\ IF ok
       THEN /\ phase' = "mkdirDone"
            /\ UNCHANGED <<exitCode, fatalError>>
       ELSE /\ Exit(1)
            /\ fatalError' = "mkdir"
    /\ UNCHANGED <<options, sites, now, tstate, timerAt, attemptNumber, opStart,
                   fetchWindow, failReports, waits, errorReports, results,
                   outcome, summary, reportUrls, emptyCount, written>>

\* FetchSitemapFail with the inner catch exiting with code 0
FetchSitemapFailExitZero ==
    /\ phase = "mkdirDone"
    /\ Exit(0)
    /\ fatalError' = "sitemap"
    /\ UNCHANGED <<options, sites, now, tstate, timerAt, attemptNumber, opStart,
                   fetchWindow, failReports, waits, errorReports, results,
                   outcome, summary, reportUrls, emptyCount, written>>

\* sitemap.fetch(url) rejects: inner catch, "Error fetching sitemap", exit 1
FetchSitemapFail ==
    /\ phase = "mkdirDone"
    /\ Exit(1)
    /\ fatalError' = "sitemap"
    /\ UNCHANGED <<options, sites, now, tstate, timerAt, attemptNumber, opStart,
                   fetchWindow, failReports, waits, errorReports, results,
                   outcome, summary, reportUrls, emptyCount, written>>

\* sitemap.fetch(url) resolves with the list s; the synchronous sites.map pass
\* calls throttledFn for every site: a call with no delay starts pRetry and
\* the first processUrl at once, the others wait on the gate's timer.
FetchSitemapList(s) ==
    /\ phase = "mkdirDone"
    /\ phase' = "running"
    /\ sites' = s
    /\ tstate' = [i \in 1..Len(s) |->
                    IF throttleDelay(i) > 0 THEN "queued" ELSE "fetching"]
    /\ timerAt' = [i \in 1..Len(s) |->
                    IF throttleDelay(i) > 0 THEN now + throttleDelay(i) ELSE -1]
    /\ attemptNumber' = [i \in 1..Len(s) |-> IF throttleDelay(i) > 0 THEN 0 ELSE 1]
    /\ opStart' = [i \in 1..Len(s) |-> IF throttleDelay(i) > 0 THEN -1 ELSE now]
    /\ fetchWindow' = [k \in 1..Cardinality({i \in 1..Len(s) : throttleDelay(i) = 0})
                        |-> now]
    /\ failReports' = [i \in 1..Len(s) |-> <<>>]
    /\ waits' = [i \in 1..Len(s) |-> <<>>]
    /\ results' = [i \in 1..Len(s) |-> "pending"]
    /\ outcome' = [i \in 1..Len(s) |-> "none"]
    /\ reportUrls' = [i \in 1..Len(s) |-> <<>>]
    /\ emptyCount' = [i \in 1..Len(s) |-> 0]
    /\ written' = [i \in 1..Len(s) |-> 0]
    /\ UNCHANGED <<exitCode, options, now, errorReports, summary, fatalError>>

\* a sitemap of n distinct URLs
FetchSitemap(n) == FetchSitemapList([i \in 1..n |-> i])

\* the rate gate's timer fires: execute() starts pRetry and the first processUrl
GateOpen(i) ==
    /\ phase = "running"
    /\ tstate[i] = "queued"
    /\ timerAt[i] <= now
    /\ tstate' = [tstate EXCEPT ![i] = "fetching"]
    /\ timerAt' = [timerAt EXCEPT ![i] = -1]
    /\ attemptNumber' = [attemptNumber EXCEPT ![i] = 1]
    /\ opStart' = [opStart EXCEPT ![i] = now]
    /\ fetchWindow' = Append(fetchWindow, now)
    /\ UNCHANGED <<phase, exitCode, options, sites, now, failReports, waits,
                   errorReports, results, outcome, summary, fatalError,
                   reportUrls, emptyCount, written>>

\* urlToFilename: the md5 hex digest of the URL string followed by ".md".
\* The digest is a function of the URL, taken to differ for different URLs.
urlToFilename(url) == <<"md5", url, ".md">>

\* path.resolve(outputPath, filename): the file an attempt of target i writes
filePath(i) == <<"outputPath", urlToFilename(sites[i])>>

\* onFailedAttempt names error.options?.url || "unknown URL"; neither p-retry
\* nor the errors raised in processUrl set error.options.  The URLs a report
\* names: none, where <<sites[i]>> would name the target's.
reportedUrl(i) == <<>>

\* An attempt of target i threw.  p-retry calls onFailedAttempt, then either
\* schedules the next attempt or rejects; on rejection the per-target catch
\* block reports the error and exits or returns the failure object.
AttemptFailed(i) ==
    /\ failReports' = [failReports EXCEPT
            ![i] = Append(@, <<attemptNumber[i], nextRetryDelay(attemptNumber[i])>>)]
    /\ reportUrls' = [reportUrls EXCEPT ![i] = Append(@, reportedUrl(i))]
    /\ IF shouldRetryAgain(attemptNumber[i])
       THEN /\ tstate' = [tstate EXCEPT ![i] = "waiting"]
            /\ timerAt' = [timerAt EXCEPT ![i] = now + retryTimeout(attemptNumber[i])]
            /\ waits' = [waits EXCEPT ![i] = Append(@, retryTimeout(attemptNumber[i]))]
            /\ UNCHANGED <<phase, exitCode, errorReports, results, outcome>>
       ELSE /\ tstate' = [tstate EXCEPT ![i] = "exhausted"]
            /\ errorReports' = errorReports \cup {i}
            /\ UNCHANGED <<timerAt, waits>>
            /\ IF stopsOnError
               THEN /\ Exit(1)
                    /\ UNCHANGED <<results, outcome>>
               ELSE /\ results' = [results EXCEPT ![i] = "fulfilled"]
                    /\ outcome' = [outcome EXCEPT ![i] = "failure"]
                    /\ UNCHANGED <<phase, exitCode>>

\* hasContent with the missing-content check left out
hasContentUnchecked(r) == r # "error"

\* if (!result || !result.content): the attempt throws "No content found"
hasContent(r) == r = "content"

\* Parser.parse settles: content, no content ("No content found"), or a throw.
\* With content the metadata is assembled and writeFile is called.
FetchDone(i, r) ==
    /\ phase = "running"
    /\ tstate[i] = "fetching"
    /\ IF hasContent(r)
       THEN /\ tstate' = [tstate EXCEPT ![i] = "writing"]
            /\ UNCHANGED <<phase, exitCode, timerAt, failReports, waits,
                           errorReports, results, outcome, reportUrls>>
       ELSE AttemptFailed(i)
    /\ emptyCount' = [emptyCount EXCEPT ![i] = IF r = "empty" THEN @ + 1 ELSE @]
    /\ UNCHANGED <<options, sites, now, attemptNumber, opStart, fetchWindow,
                   summary, fatalError, written>>

\* WriteDone with the attempt counted as failed even though the file was written
WriteDoneNoReturn(i, ok) ==
    /\ phase = "running"
    /\ tstate[i] = "writing"
    /\ written' = [written EXCEPT ![i] = IF ok THEN @ + 1 ELSE @]
    /\ AttemptFailed(i)
    /\ UNCHANGED <<options, sites, now, attemptNumber, opStart, fetchWindow,
                   summary, fatalError, emptyCount>>

\* writeFile settles: processUrl returns the success object, or throws
WriteDone(i, ok) ==
    /\ phase = "running"
    /\ tstate[i] = "writing"
    /\ IF ok
       THEN /\ tstate' = [tstate EXCEPT ![i] = "done"]
            /\ results' = [results EXCEPT ![i] = "fulfilled"]
            /\ outcome' = [outcome EXCEPT ![i] = "success"]
            /\ written' = [written EXCEPT ![i] = @ + 1]
            /\ UNCHANGED <<phase, exitCode, timerAt, failReports, waits,
                           errorReports, reportUrls>>
       ELSE /\ AttemptFailed(i)
            /\ UNCHANGED written
    /\ UNCHANGED <<options, sites, now, attemptNumber, opStart, fetchWindow,
                   summary, fatalError, emptyCount>>

\* the backoff timer fires: p-retry starts the next attempt
RetryFire(i) ==
    /\ phase = "running"
    /\ tstate[i] = "waiting"
    /\ timerAt[i] <= now
    /\ tstate' = [tstate EXCEPT ![i] = "fetching"]
    /\ timerAt' = [timerAt EXCEPT ![i] = -1]
    /\ attemptNumber' = [attemptNumber EXCEPT ![i] = @ + 1]
    /\ fetchWindow' = Append(fetchWindow, now)
    /\ UNCHANGED <<phase, exitCode, options, sites, now, opStart, failReports,
                   waits, errorReports, results, outcome, summary, fatalError,
                   reportUrls, emptyCount, written>>

\* Promise.allSettled resolves: counts, summary line, process.exit(0)
Complete ==
    /\ phase = "running"
    /\ allSettled
    /\ summary' = [total |-> Len(sites), successful |-> successful,
                   failed |-> failed]
    /\ Exit(0)
    /\ UNCHANGED <<options, sites, now, tstate, timerAt, attemptNumber, opStart,
                   fetchWindow, failReports, waits, errorReports, results, outcome,
                   fatalError, reportUrls, emptyCount, written>>

\* ------------------------------------------------------------------ clock

PendingTimers == {i \in Targets : tstate[i] \in {"queued", "waiting"}}
InFlight == {i \in Targets : tstate[i] \in {"fetching", "writing"}}

\* the starts of log that lie in the window (t - interval, t]
StillInWindow(log, t) == SelectSeq(log, LAMBDA s : s > t - interval)

NextDeadline ==
    CHOOSE d \in {timerAt[i] : i \in PendingTimers} :
        \A i \in PendingTimers : d <= timerAt[i]

\* Time passes while I/O is in flight, up to the next timer deadline.
Tick ==
    /\ phase = "running"
    /\ InFlight # {}
    /\ now < MaxTicks * TickMs
    /\ \A i \in PendingTimers : timerAt[i] > now
    /\ now' = IF PendingTimers = {} THEN now + TickMs
              ELSE Min(now + TickMs, NextDeadline)
    /\ fetchWindow' = StillInWindow(fetchWindow, now')
    /\ UNCHANGED <<phase, exitCode, options, sites, tstate, timerAt,
                   attemptNumber, opStart, failReports, waits,
                   errorReports, results, outcome, summary, fatalError,
                   reportUrls, emptyCount, written>>

\* Time passes until the next timer deadline.
Sleep ==
    /\ phase = "running"
    /\ PendingTimers # {}
    /\ \A i \in PendingTimers : timerAt[i] > now
    /\ now' = NextDeadline
    /\ fetchWindow' = StillInWindow(fetchWindow, now')
    /\ UNCHANGED <<phase, exitCode, options, sites, tstate, timerAt,
                   attemptNumber, opStart, failReports, waits,
                   errorReports, results, outcome, summary, fatalError,
                   reportUrls, emptyCount, written>>

\* How Parser.parse can settle.  "error" stands for any throw of the fetch
\* step; "empty" is the throw of the missing-content check told apart from the
\* others, which only the single-target specification does.
FetchResults == {"content", "error"}
SoloFetchResults == {"content", "empty", "error"}

Next ==
    \/ \E ok \in BOOLEAN : Mkdir(ok)
    \/ FetchSitemapFail
    \/ \E n \in SiteCounts : FetchSitemap(n)
    \/ \E i \in Targets : GateOpen(i)
    \/ \E i \in Targets, r \in FetchResults : FetchDone(i, r)
    \/ \E i \in Targets, ok \in BOOLEAN : WriteDone(i, ok)
    \/ \E i \in Targets : RetryFire(i)
    \/ Complete
    \/ Tick
    \/ Sleep

Spec == Init /\ [][Next]_vars

\* the retry loop of a single target (no rate gate timer: the call is first)
NextSolo ==
    \/ \E ok \in BOOLEAN : Mkdir(ok)
    \/ FetchSitemapFail
    \/ FetchSitemap(1)
    \/ \E i \in Targets, r \in SoloFetchResults : FetchDone(i, r)
    \/ \E i \in Targets, ok \in BOOLEAN : WriteDone(i, ok)
    \/ \E i \in Targets : RetryFire(i)
    \/ Complete
    \/ Tick
    \/ Sleep

SpecSolo == InitSolo /\ [][NextSolo]_vars

\* every list of at most MaxSites URLs over MaxSites URLs: unlike SiteCounts,
\* with the lists that name a URL more than once
SiteLists == UNION {[1..n -> 1..MaxSites] : n \in SiteCounts}

\* the crawl of a sitemap that may list a URL several times
NextDup ==
    \/ \E ok \in BOOLEAN : Mkdir(ok)
    \/ FetchSitemapFail
    \/ \E s \in SiteLists : FetchSitemapList(s)
    \/ \E i \in Targets : GateOpen(i)
    \/ \E i \in Targets, r \in FetchResults : FetchDone(i, r)
    \/ \E i \in Targets, ok \in BOOLEAN : WriteDone(i, ok)
    \/ \E i \in Targets : RetryFire(i)
    \/ Complete
    \/ Tick
    \/ Sleep

SpecDup == Init /\ [][NextDup]_vars

\* src/unnamed/part_002: sitemap.fetch(url) resolves with n URLs and the
\* sites.map pass runs `return await throttle(async () => pRetry(...))` for
\* each.  throttle(fn) is the wrapped function (pThrottle) or fn itself (rate
\* limit 0), never a call of it: the await yields that function, the callback
\* returns it, and every promise is fulfilled without pRetry having been called.
FetchSitemapPart002(n) ==
    /\ phase = "mkdirDone"
    /\ phase' = "running"
    /\ sites' = [i \in 1..n |-> i]
    /\ tstate' = [i \in 1..n |-> "uncalled"]
    /\ timerAt' = [i \in 1..n |-> -1]
    /\ attemptNumber' = [i \in 1..n |-> 0]
    /\ opStart' = [i \in 1..n |-> -1]
    /\ failReports' = [i \in 1..n |-> <<>>]
    /\ waits' = [i \in 1..n |-> <<>>]
    /\ results' = [i \in 1..n |-> "fulfilled"]
    /\ outcome' = [i \in 1..n |-> "function"]
    /\ reportUrls' = [i \in 1..n |-> <<>>]
    /\ emptyCount' = [i \in 1..n |-> 0]
    /\ written' = [i \in 1..n |-> 0]
    /\ UNCHANGED <<exitCode, options, now, fetchWindow, errorReports, summary,
                   fatalError>>

\* the crawl action of src/unnamed/part_002; mkdir, the inner catch and the
\* summary are the same statements as in src/src/index.ts
NextPart002 ==
    \/ \E ok \in BOOLEAN : Mkdir(ok)
    \/ FetchSitemapFail
    \/ \E n \in SiteCounts : FetchSitemapPart002(n)
    \/ Complete

SpecPart002 == Init /\ [][NextPart002]_vars

\* What the runtime guarantees to happen: the awaited mkdir, sitemap fetch
\* (Sitemapper is built with timeout: 15000) and writeFile calls settle, due
\* timers fire, time passes, and the continuation of Promise.allSettled runs.
\* Nothing is assumed of Parser.parse, which is awaited with no deadline.
RuntimeProgress ==
    /\ WF_vars(\E ok \in BOOLEAN : Mkdir(ok))
    /\ WF_vars(FetchSitemapFail \/ \E n \in SiteCounts : FetchSitemap(n))
    /\ WF_vars(\E i \in Targets : GateOpen(i))
    /\ WF_vars(\E i \in Targets, ok \in BOOLEAN : WriteDone(i, ok))
    /\ WF_vars(\E i \in Targets : RetryFire(i))
    /\ WF_vars(Complete)
    /\ WF_vars(Tick)
    /\ WF_vars(Sleep)

FairSpec == Spec /\ RuntimeProgress

TypeOK ==
    /\ phase \in {"start", "mkdirDone", "running", "exited"}
    /\ exitCode \in {-1, 0, 1}
    /\ \A i \in Targets :
        /\ tstate[i] \in {"queued", "fetching", "writing", "waiting", "done",
                          "exhausted", "uncalled"}
        /\ results[i] \in {"pending", "fulfilled", "rejected"}
        /\ outcome[i] \in {"none", "success", "failure", "function"}
\* ============================================================ properties

Started(t) == attemptNumber[t] >= 1
HaltedByFailure == phase = "exited" /\ exitCode = 1 /\ errorReports # {}
CompletedRun == phase = "exited" /\ exitCode = 0

\* C1: under --continue, when the run completes, the summary's succeeded count
\* is the number of targets that ended in success, its failed count the number
\* of targets that failed after all retries, and they add up to the total,
\* the number of sitemap URLs.
C1_SummaryCountsOutcomes ==
    (CompletedRun /\ options.continue) =>
        /\ summary.total = Len(sites)
        /\ summary.successful = Cardinality({i \in Targets : outcome[i] = "success"})
        /\ summary.failed = Cardinality({i \in Targets : outcome[i] = "failure"})
        /\ summary.successful + summary.failed = summary.total

\* C2: without --continue, once a target has failed after exhausting its
\* retries the process has exited with code 1, and from then on no per-target
\* operation and no attempt of any target starts.
C2_HaltAtFirstFailure ==
    /\ []((~options.continue /\ errorReports # {}) =>
            (phase = "exited" /\ exitCode = 1))
    /\ [][(~options.continue /\ errorReports # {}) =>
            (opStart' = opStart /\ attemptNumber' = attemptNumber)]_vars

\* a target failed terminally while another target had work still to come
C2_Witness ==
    /\ ~options.continue
    /\ HaltedByFailure
    /\ \E t \in Targets : tstate[t] \in {"queued", "waiting"}

\* C3 as stated: without --continue, when a target has failed after its
\* retries, no fetch attempt of a target after it in list order was ever
\* started, whatever the rate limit and the retry options.
C3_NoLaterTargetStarted ==
    (~options.continue /\ HaltedByFailure) =>
        \A k \in errorReports : \A t \in Targets : t > k => ~Started(t)

\* time at which the rate gate admits the t-th target of the list
GateTime(t) ==
    IF options.rateLimit = 0 THEN 0
    ELSE ((t - 1) \div options.rateLimit) * 1000

\* C3 amended: without --continue, when the run halts on a target's terminal
\* failure, a target is left without any fetch attempt only if the rate gate
\* admits it no earlier than the halt; every target admitted before the halt
\* (all of them when the rate limit is 0) has had its first attempt started.
C3_LaterTargetStartedUnlessGated ==
    (~options.continue /\ HaltedByFailure) =>
        \A t \in Targets :
            /\ GateTime(t) < now => Started(t)
            /\ GateTime(t) > now => ~Started(t)
            /\ ~Started(t) => (tstate[t] = "queued" /\ timerAt[t] = GateTime(t))

\* the run halted on a target while a later target was still behind the gate
C3_Witness ==
    /\ ~options.continue
    /\ HaltedByFailure
    /\ \E k \in errorReports : \E t \in Targets :
            t > k /\ ~Started(t) /\ timerAt[t] > now

\* C4: without --continue at most one target is ever reported as failed
\* ("Error processing ... after all retry attempts").
C4_AtMostOneErrorReport ==
    ~options.continue => Cardinality(errorReports) <= 1

\* a target was reported while another one was in flight on its last attempt
C4_Witness ==
    /\ ~options.continue
    /\ HaltedByFailure
    /\ \E t \in Targets \ errorReports :
            /\ tstate[t] \in {"fetching", "writing"}
            /\ attemptNumber[t] = options.retries + 1

\* C5: under --continue every target ends with exactly one outcome: when the
\* run completes each target's promise is fulfilled with a success or a
\* failure, and an outcome once produced is never replaced.
C5_ExactlyOneOutcome ==
    /\ []((options.continue /\ CompletedRun) =>
            \A i \in Targets :
                results[i] = "fulfilled" /\ outcome[i] \in {"success", "failure"})
    /\ [][\A i \in Targets :
            outcome[i] # "none" =>
                (outcome'[i] = outcome[i] /\ results'[i] = results[i])]_vars

\* a completed --continue run with a failed and a successful target, after retries
C5_Witness ==
    /\ options.continue
    /\ CompletedRun
    /\ options.rateLimit > 0
    /\ \E i, j \in Targets :
            /\ outcome[i] = "success" /\ attemptNumber[i] > 1
            /\ outcome[j] = "failure" /\ attemptNumber[j] > 1

\* C6: with a rate limit N > 0, any window of 1000 ms holds the start of at
\* most N retry-wrapped operations; the other targets wait in the queue.
C6_OperationStartsWithinRate ==
    options.rateLimit > 0 =>
        \A t \in Targets :
            opStart[t] >= 0 =>
                Cardinality({u \in Targets :
                    /\ opStart[u] >= opStart[t]
                    /\ opStart[u] < opStart[t] + 1000}) <= options.rateLimit

\* a target was held in the queue and admitted by a later window
C6_Witness ==
    /\ options.rateLimit > 0
    /\ \E t \in Targets : opStart[t] >= 1000
    /\ Cardinality({u \in Targets : opStart[u] = 0}) = options.rateLimit

\* C7: with a rate limit N > 0, any window of 1000 ms holds the start of at
\* most N processUrl invocations, first attempts and retries alike.
C7_FetchStartsWithinRate ==
    options.rateLimit > 0 => Len(fetchWindow) <= options.rateLimit

\* C8: with rate limit 0 no admission limit applies: every target's first
\* attempt starts in the fan-out itself, none waits in a queue.
C8_NoAdmissionDelay ==
    (options.rateLimit = 0 /\ phase \in {"running", "exited"}) =>
        \A t \in Targets :
            /\ tstate[t] # "queued"
            /\ Started(t)
            /\ opStart[t] = 0

\* all targets of a sitemap of several URLs are in flight at once
C8_Witness ==
    /\ options.rateLimit = 0
    /\ Len(sites) >= 2
    /\ \A t \in Targets : tstate[t] = "fetching" /\ attemptNumber[t] = 1

\* the attempt of target i that was in flight fails in this step
AttemptFails(i) ==
    /\ tstate[i] \in {"fetching", "writing"}
    /\ tstate'[i] \in {"waiting", "exhausted"}

\* C9 as stated: a wait and attempt n + 1 follow the failure of attempt n only
\* if n < maxRetries, so a target is attempted at most maxRetries times.
C9_AtMostMaxRetriesAttempts ==
    \A i \in Targets :
        /\ attemptNumber[i] <= options.retries
        /\ tstate[i] = "waiting" => attemptNumber[i] < options.retries

\* C9 amended: a wait and then attempt n + 1 follow the failure of attempt n
\* if and only if n <= maxRetries; the failure of attempt maxRetries + 1 is
\* terminal, so a target is attempted at most maxRetries + 1 times.
C9_RetryWhileRetriesRemain ==
    /\ [](\A i \in Targets : attemptNumber[i] <= options.retries + 1)
    /\ [][\A i \in Targets :
            /\ AttemptFails(i) =>
                /\ tstate'[i] = "waiting" <=> attemptNumber[i] <= options.retries
                /\ tstate'[i] = "exhausted" <=>
                        attemptNumber[i] = options.retries + 1
            /\ (tstate[i] = "waiting" /\ tstate'[i] # "waiting") =>
                /\ tstate'[i] = "fetching"
                /\ attemptNumber'[i] = attemptNumber[i] + 1]_vars

\* a target used up all its retries
C9_Witness ==
    \E i \in Targets :
        /\ tstate[i] = "exhausted"
        /\ options.retries >= 2
        /\ attemptNumber[i] = options.retries + 1

\* the backoff formula of the specification
ExpectedDelay(n) ==
    IF options.retryDelay * (2 ^ (n - 1)) < 60000
    THEN options.retryDelay * (2 ^ (n - 1))
    ELSE 60000

\* C10: the wait applied after a failed attempt n that is followed by a retry
\* is min(initialRetryDelayMs * 2^(n-1), 60000) ms, the next attempt starts
\* when exactly that wait has elapsed, and the delay reported for the attempt
\* is the wait applied; with an initial delay of 1000 the waits before
\* attempts 2, 3 and 4 are 1000, 2000 and 4000 ms.
C10_BackoffDelay ==
    [][\A i \in Targets :
        /\ (AttemptFails(i) /\ tstate'[i] = "waiting") =>
            LET n == attemptNumber[i] IN
            /\ timerAt'[i] = now + ExpectedDelay(n)
            /\ waits'[i] = Append(waits[i], ExpectedDelay(n))
            /\ failReports'[i] = Append(failReports[i], <<n, ExpectedDelay(n)>>)
            /\ ExpectedDelay(n) <= 60000
            /\ options.retryDelay = 1000 =>
                    /\ n = 1 => timerAt'[i] - now = 1000
                    /\ n = 2 => timerAt'[i] - now = 2000
                    /\ n = 3 => timerAt'[i] - now = 4000
        /\ (tstate[i] = "waiting" /\ tstate'[i] = "fetching") =>
            now = timerAt[i]]_vars

\* attempt 4 is in flight after waits of 1000, 2000 and 4000 ms
C10_Witness ==
    \E i \in Targets :
        /\ options.retryDelay = 1000
        /\ attemptNumber[i] = 4
        /\ waits[i] = <<1000, 2000, 4000>>
        /\ now >= 7000

\* a second case of C10: a wait was cut to the 60000 ms ceiling
C10_WitnessCapped ==
    \E i \in Targets :
        /\ options.retryDelay = 40000
        /\ waits[i] = <<40000, 60000>>
        /\ attemptNumber[i] = 3

\* C11: when the process has exited, its code is 0 exactly when mkdir and the
\* sitemap fetch succeeded and either no target failed after its retries or
\* --continue is set, and 1 exactly when mkdir failed, the sitemap fetch
\* failed, or a target failed after its retries without --continue.
C11_ExitCode ==
    phase = "exited" =>
        /\ exitCode \in {0, 1}
        /\ exitCode = 0 <=>
            (fatalError = "none" /\ (errorReports = {} \/ options.continue))
        /\ exitCode = 1 <=>
            (fatalError # "none" \/ (errorReports # {} /\ ~options.continue))

\* a run with a target that failed after its retries exited 0 under --continue
C11_Witness ==
    /\ CompletedRun
    /\ options.continue
    /\ errorReports # {}
    /\ \E t \in Targets : outcome[t] = "success"

\* C12: once mkdir or the sitemap fetch has failed the process has exited
\* with code 1, and no target exists: no operation was submitted, no fetch
\* attempt started, no file written and no summary printed, then or later.
C12_AbortBeforeAnyTarget ==
    fatalError # "none" =>
        /\ phase = "exited"
        /\ exitCode = 1
        /\ sites = <<>>
        /\ attemptNumber = <<>>
        /\ opStart = <<>>
        /\ fetchWindow = <<>>
        /\ written = <<>>
        /\ summary = NoSummary

\* the sitemap fetch failed after the output directory had been created
C12_Witness ==
    /\ fatalError = "sitemap"
    /\ phase = "exited"
    /\ exitCode = 1

\* C13 as stated: under --continue the run eventually prints the summary and
\* exits, because every fetch attempt ends within a bounded time.
C13_RunReachesSummary ==
    options.continue ~> (phase = "exited")

\* C14 as stated: whatever list the sitemap yields, two different targets
\* never have a writeFile call in flight to the same output file.
C14_DistinctOutputFiles ==
    \A i \in Targets : \A j \in Targets :
        (i # j /\ tstate[i] = "writing" /\ tstate[j] = "writing") =>
            filePath(i) # filePath(j)

\* C15 as stated: every failed attempt of a target has been reported by the
\* time its backoff wait begins, and the k-th report of a target names the
\* target's URL, the attempt number k and the computed next delay.
C15_ReportIdentifiesAttempt ==
    \A i \in Targets :
        /\ Len(waits[i]) <= Len(failReports[i])
        /\ Len(reportUrls[i]) = Len(failReports[i])
        /\ \A k \in 1..Len(failReports[i]) :
            /\ failReports[i][k] = <<k, nextRetryDelay(k)>>
            /\ reportUrls[i][k] = <<sites[i]>>

\* C16 as stated: a target's promise is settled, and so counted in the
\* summary, only after its retry-wrapped operation has run, and a run that
\* completes has started the operation of every URL of the sitemap.
C16_EveryTargetRun ==
    /\ \A t \in Targets : results[t] # "pending" => Started(t)
    /\ CompletedRun =>
        /\ \A t \in Targets : Started(t)
        /\ summary.total = Len(sites)

\* C17: an attempt whose extraction has no content makes no writeFile call
\* and is a failed attempt like any other: it is reported, and followed by a
\* backoff wait while retries remain and by the terminal failure otherwise.
\* A target all of whose attempts had no content ends as a failure, with no
\* file written for it.
C17_EmptyContentIsFailedAttempt ==
    /\ [][\A i \in Targets :
            emptyCount'[i] = emptyCount[i] + 1 =>
                /\ tstate[i] = "fetching"
                /\ tstate'[i] \in {"waiting", "exhausted"}
                /\ written'[i] = written[i]
                /\ Len(failReports'[i]) = Len(failReports[i]) + 1
                /\ tstate'[i] = "waiting" <=> attemptNumber[i] <= options.retries
                /\ tstate'[i] = "waiting" =>
                        timerAt'[i] = now + ExpectedDelay(attemptNumber[i])]_vars
    /\ [](\A i \in Targets :
            (tstate[i] = "exhausted" /\ emptyCount[i] = attemptNumber[i]) =>
                /\ written[i] = 0
                /\ i \in errorReports
                /\ outcome[i] = "failure" \/ HaltedByFailure)

\* every attempt of a target that was retried had no content
C17_Witness ==
    \E i \in Targets :
        /\ tstate[i] = "exhausted"
        /\ attemptNumber[i] >= 3
        /\ emptyCount[i] = attemptNumber[i]
        /\ written[i] = 0

\* C18: once an attempt of a target has succeeded the target stays done: no
\* further attempt starts, no backoff wait is scheduled and no file is
\* written for it; its file was written once, by that attempt.
C18_SuccessEndsRetryLoop ==
    /\ [](\A i \in Targets :
            /\ written[i] <= 1
            /\ tstate[i] = "done" <=> written[i] = 1
            /\ tstate[i] = "done" => (outcome[i] = "success" /\ timerAt[i] = -1))
    /\ [][\A i \in Targets :
            /\ tstate[i] = "done" =>
                /\ tstate'[i] = "done"
                /\ attemptNumber'[i] = attemptNumber[i]
                /\ waits'[i] = waits[i]
                /\ written'[i] = written[i]
            /\ written'[i] # written[i] =>
                (tstate[i] = "writing" /\ tstate'[i] = "done")]_vars

\* a target succeeded at a retry while another target was still being retried
C18_Witness ==
    \E i, j \in Targets :
        /\ tstate[i] = "done"
        /\ attemptNumber[i] >= 2
        /\ written[i] = 1
        /\ tstate[j] = "fetching"
        /\ attemptNumber[j] > attemptNumber[i]

\* C19: a target is attempted at most retries + 1 times and fails terminally
\* at exactly its own failed attempt number retries + 1, whatever the other
\* targets do; under --continue the result of an attempt of one target
\* changes nothing of any other target.
C19_PerTargetRetryBudget ==
    /\ [](\A i \in Targets :
            /\ Len(failReports[i]) <= attemptNumber[i]
            /\ attemptNumber[i] <= options.retries + 1
            /\ tstate[i] = "exhausted" =>
                    Len(failReports[i]) = options.retries + 1)
    /\ [][\A i \in Targets : \A j \in Targets :
            (options.continue /\ i # j /\ tstate[i] \in {"fetching", "writing"}
                /\ tstate'[i] # tstate[i]) =>
                    /\ tstate'[j] = tstate[j]
                    /\ attemptNumber'[j] = attemptNumber[j]
                    /\ failReports'[j] = failReports[j]
                    /\ waits'[j] = waits[j]
                    /\ timerAt'[j] = timerAt[j]
                    /\ results'[j] = results[j]
                    /\ outcome'[j] = outcome[j]
                    /\ written'[j] = written[j]]_vars

\* one target used up its retries and failed, another succeeded first time
C19_Witness ==
    /\ options.continue
    /\ options.retries >= 1
    /\ \E i, j \in Targets :
            /\ tstate[i] = "exhausted"
            /\ Len(failReports[i]) = options.retries + 1
            /\ tstate[j] = "done"
            /\ attemptNumber[j] = 1

\* C20: the summary is printed and the process exits with code 0 only when
\* every target's operation has resolved: no target is queued behind the
\* rate gate, has an attempt in flight or is waiting for a retry.
C20_ExitOnlyWhenAllResolved ==
    /\ summary # NoSummary => CompletedRun
    /\ CompletedRun =>
        /\ summary # NoSummary
        /\ PendingTimers = {}
        /\ InFlight = {}
        /\ \A t \in Targets : tstate[t] \in {"done", "exhausted"}

\* the run completed after one target had waited at the gate and been retried
C20_Witness ==
    /\ CompletedRun
    /\ Len(sites) >= 2
    /\ \E t \in Targets : opStart[t] > 0 /\ Len(waits[t]) >= 1
====
